---- MODULE Spec2Model ----
(***************************************************************************)
(* Model of the media -> transcript -> document pipeline of the BA         *)
(* document generator: the two orchestrators of main.py (upload_file and   *)
(* process_media_file), the agents they call, the document generators and  *)
(* the JSON ledger of models/database.py.                                  *)
(*                                                                         *)
(* One run is active at a time.  A run is a synchronous upload ("sync"),   *)
(* a background run ("bg") or a direct generation request ("gen").  Every  *)
(* await of the source is one step; pc names the statement about to run.   *)
(* Error messages are sequences of tokens: wrapping a message with a       *)
(* prefix is concatenation, the empty message is << >>.                    *)
(***************************************************************************)
EXTENDS Integers, Sequences, FiniteSets, TLC

\* ---------------------------------------------------------------- bounds
MaxRuns == 2
MaxFaults == 2

\* ------------------------------------------------------ program constants
MaxRetries == 3
MinTranscriptBRD == 50
MinTranscriptSOW == 100
MinContentLen == 100

Files == {"f1"}
DocTypes == {"BRD", "SOW", "FRD"}
Modes == {"sync", "bg", "gen"}

\* A transcript or a generated text is known by its length and by the
\* length of its strip(); "complete" says that every required section
\* heading occurs in the text.
Transcripts ==
  { [raw |-> 0, strip |-> 0], [raw |-> 25, strip |-> 25],
    [raw |-> 60, strip |-> 60], [raw |-> 120, strip |-> 120] }
NoText == [raw |-> 0, strip |-> 0, complete |-> FALSE]
Contents ==
  { NoText,
    [raw |-> 80, strip |-> 80, complete |-> FALSE],
    [raw |-> 2000, strip |-> 2000, complete |-> FALSE],
    [raw |-> 2000, strip |-> 2000, complete |-> TRUE] }

NoRec == [status |-> "none", progress |-> 0, stage |-> "none", err |-> << >>]
NoDoc == 0
NoRun == [mode |-> "none", fid |-> "none", docType |-> "none"]
NoResult == [kind |-> "none", stage |-> "none", msg |-> << >>]
NoRes == [validation |-> "none", transcription |-> "none",
          storage |-> "none", generation |-> "none"]
NoDocObj == [id |-> NoDoc, fid |-> "none", content |-> NoText,
             docType |-> "none", pdf |-> FALSE]

VARIABLES
  status,      \* status_db: file_id -> record
  tstore,      \* data/transcriptions/<file_id>.json: file_id -> transcript
  docFile,     \* data/documentations/<file_id>.json: file_id -> document
  docs,        \* documentation_db: documentation_id -> record
  docIndex,    \* documentation_db: "file_<file_id>" -> documentation_id
  nextDoc,     \* number of documentation ids handed out
  nruns, nfaults,
  pc, run, attempt, transcript, content, doc, exc, emsg, ret,
  trace,       \* history: status writes and capability calls of the run
  res,         \* history: what each stage returned to the orchestrator
  result,      \* what the caller of the run received
  idx0,        \* history: docIndex[fid] when the run started
  outs         \* history: the kinds of result the generator gave in the run

\* Concurrent generation requests for one file_id (coroutines of one event
\* loop, each inside DocumentationAgent.generate_documentation)
VARIABLES
  gpc,         \* request -> the await it is suspended at
  gdoc,        \* request -> documentation_id it created
  ngen         \* number of requests that have arrived

requests == <<gpc, gdoc, ngen>>

\* The read endpoints and the export of a stored document
VARIABLES
  dlInfo,      \* download_db: "<file_id>_<format>" -> download info
  artifact,    \* format -> the exported file is on disk
  dlog,        \* history: export requests and deletions of artifacts
  qres         \* history: what the last GET /status or /documentation gave

api == <<dlInfo, artifact, dlog, qres>>

\* DocumentationValidator.validate_content, as a function applied to an input
VARIABLES
  vin,         \* the arguments: content and level
  vout         \* the returned tuple
val == <<vin, vout>>

\* the run before the current one, kept for the comparison of two runs
VARIABLES prev
modes == <<prev>>

\* one JSONDatabase and the coroutines that call its set and delete
VARIABLES
  dbfile,      \* the file of the namespace
  lock,        \* self.lock: the coroutine that holds it, or "free"
  cpc,         \* coroutine -> position in its call
  cop,         \* coroutine -> the call it makes
  clocal,      \* coroutine -> the dict it read (db)
  cres,        \* coroutine -> how its last call ended
  expected,    \* key -> the value last written to it
  nops, dbfaults, overlap, anyFailed
jsondb == <<dbfile, lock, cpc, cop, clocal, cres, expected, nops, dbfaults,
            overlap, anyFailed>>

\* str(e) of the exception a failing write raises
VARIABLES fmsg
faultmsg == <<fmsg>>

\* status_db for one file_id as update_processing_status writes it: the
\* stored dict with its timestamps, the clock, the time of the first write
VARIABLES sdb
statusdb == <<sdb>>

aux == <<requests, api, val, modes, jsondb, faultmsg, statusdb>>
auxButRequests == <<api, val, modes, jsondb, faultmsg, statusdb>>
auxButApi == <<requests, val, modes, jsondb, faultmsg, statusdb>>
auxButVal == <<requests, api, modes, jsondb, faultmsg, statusdb>>
auxButModes == <<requests, api, val, jsondb, faultmsg, statusdb>>
auxButJsondb == <<requests, api, val, modes, faultmsg, statusdb>>
auxButStatusdb == <<requests, api, val, modes, jsondb, faultmsg>>

ledger == <<status, tstore, docFile, docs, docIndex, nextDoc>>
locals == <<run, attempt, transcript, content, doc, exc, emsg, ret>>
hist == <<trace, res, result, idx0, outs>>
pipeline == <<nruns, nfaults, pc, locals, hist>>
vars == <<ledger, pipeline, aux>>

\* ---------------------------------------------------------------- helpers
WriteEv(r) == [e |-> "write", a |-> r.status, p |-> r.progress, s |-> r.stage]
CallEv(who) == [e |-> "call", a |-> who, p |-> 0, s |-> "none"]
FaultEv == [e |-> "fault", a |-> "io", p |-> 0, s |-> "none"]

IsSowLike(t) == t \in {"SOW", "FRD"}
Label(t) == IF t = "FRD" THEN "frd_generation" ELSE "sow_generation"

\* the except clause that receives an exception leaving an agent
CallerHandler(m) ==
  CASE m = "sync" -> "up_exc"
    [] m = "bg" -> "bg_exc"
    [] OTHER -> "gen_exc"

AttemptTag == <<"attempt_1", "attempt_2", "attempt_3">>

\* One status write of the source: the record it stores, where control goes
\* when the write returns (ok) and when it raises (ex), what the enclosing
\* function returns if the write is its last statement (ret), the message it
\* returns (emsg) and the outcome of the run if the run ends there (fin).
Ent(st, pr, sg, err, ok, ex, r, m, fin) ==
  [st |-> st, pr |-> pr, sg |-> sg, err |-> err, ok |-> ok, ex |-> ex,
   ret |-> r, emsg |-> m, fin |-> fin]

SaveFileWrites(p) ==
  CASE p = "sv_w10" ->
    Ent("uploaded", 10, "upload", << >>, "val_w20", "up_exc", ret, emsg, "none")

ValidateFileWrites(p) ==
  CASE p = "val_w20" ->
    Ent("processing", 20, "validation", << >>, "val_tool", "val_h", ret, emsg, "none")
  [] p = "val_wf" ->
    Ent("failed", 0, "validation", emsg, "val_ret", "val_h", "fail", emsg, "none")
  [] p = "val_h" ->
    Ent("failed", 0, "validation", exc, "val_ret", CallerHandler(run.mode),
        "fail", <<"Error validating file">> \o exc, "none")

\* process_file.  Its two "file not found" returns (the media file before
\* the extraction, the audio file in AudioProcessingTool) are left out: the
\* run works on the file save_file has just written.
ProcessFileWrites(p) ==
  CASE p = "pf_w25" ->
    Ent("processing", 25, "extraction", << >>, "pf_extract", "pf_h", ret, emsg, "none")
  [] p = "pf_wf25" ->
    Ent("failed", 25, "extraction", emsg, "pf_ret", "pf_h", "fail", emsg, "none")
  [] p = "pf_w40" ->
    Ent("processing", 40, "audio_processing", << >>, "pf_w50", "pf_h", ret, emsg, "none")
  [] p = "pf_w50" ->
    Ent("processing", 50, "transcription", << >>, "pf_whisper", "pf_h", ret, emsg, "none")
  [] p = "pf_wf50" ->
    Ent("failed", 50, "transcription", emsg, "pf_ret", "pf_h", "fail", emsg, "none")
  [] p = "pf_w60" ->
    Ent("completed", 60, "transcription_completed", << >>, "pf_ret", "pf_h",
        "ok", emsg, "none")
  [] p = "pf_h" ->
    Ent("failed", 0, "error", exc, "pf_ret", CallerHandler(run.mode),
        "fail", <<"Error processing file">> \o exc, "none")

StoreTranscriptionWrites(p) ==
  CASE p = "st_w60" ->
    Ent("processing", 60, "storage", << >>, "st_store", "st_h", ret, emsg, "none")
  [] p = "st_w70" ->
    Ent("processing", 70, "vectorization", << >>, "st_ret", "st_h", "ok", emsg, "none")
  [] p = "st_wf0" ->
    Ent("failed", 0, "storage", emsg, "st_ret", "st_h", "fail", emsg, "none")
  [] p = "st_h" ->
    Ent("failed", 0, "storage", exc, "st_ret", CallerHandler(run.mode),
        "fail", <<"Error storing transcription">> \o exc, "none")

DocumentationAgentWrites(p) ==
  CASE p = "ag_w75" ->
    Ent("processing", 75, "documentation", << >>, "g_start", "ag_h", ret, emsg, "none")
  [] p = "ag_h" ->
    Ent("failed", 0, "documentation", <<"Error in generate_documentation">> \o exc,
        "ag_ret", CallerHandler(run.mode),
        "fail", <<"Error in generate_documentation">> \o exc, "none")

\* the retry loop with progress = 80 + (attempt * 10)
DocumentationGeneratorWrites_Step10(p) ==
  CASE p = "g_aw" ->
    Ent("processing", 80 + attempt * 10, "documentation", << >>, "g_call", "g_afail",
        ret, emsg, "none")
  [] p = "g_w100" ->
    Ent("completed", 100, "documentation", << >>, "g_ret", "g_h", "ok", emsg, "none")
  [] p = "g_h" ->
    Ent("failed", 0, "documentation", <<"Error generating documentation">> \o exc,
        "g_ret", "ag_h", "fail", <<"Error generating documentation">> \o exc, "none")

DocumentationGeneratorWrites(p) ==
  CASE p = "g_aw" ->
    Ent("processing", 80 + attempt * 5, "documentation", << >>, "g_call", "g_afail",
        ret, emsg, "none")
  [] p = "g_w100" ->
    Ent("completed", 100, "documentation", << >>, "g_ret", "g_h", "ok", emsg, "none")
  [] p = "g_h" ->
    Ent("failed", 0, "documentation", <<"Error generating documentation">> \o exc,
        "g_ret", "ag_h", "fail", <<"Error generating documentation">> \o exc, "none")

SOWGeneratorWrites(p) ==
  CASE p = "sg_w100" ->
    Ent("completed", 100, "documentation", << >>, "sg_ret", "sg_h", "ok", emsg, "none")
  [] p = "sg_h" ->
    Ent("failed", 0, "documentation", <<"Error generating documentation">> \o exc,
        "sg_ret", "sa_h", "fail", <<"Error generating documentation">> \o exc, "none")

SOWAgentWrites(p) ==
  CASE p = "sa_w75" ->
    Ent("processing", 75, Label(run.docType), << >>, "sg_start", "sa_h", ret, emsg, "none")
  [] p = "sa_w100" ->
    Ent("completed", 100, "completed", << >>, "ag_ret", "sa_h", "ok", emsg, "none")
  [] p = "sa_wf" ->
    Ent("failed", 75, Label(run.docType), emsg, "ag_ret", "sa_h", "fail", emsg, "none")
  [] p = "sa_h" ->
    Ent("failed", 75, Label(run.docType), exc, "ag_ret", CallerHandler(run.mode),
        "fail", <<"Failed to generate">> \o exc, "none")

ProcessMediaFileWrites(p) ==
  CASE p = "bg_w10" ->
    Ent("processing", 10, "validation", << >>, "val_w20", "bg_exc", ret, emsg, "none")
  [] p = "bg_vf" ->
    Ent("failed", 10, "validation", emsg, "done", "bg_exc", ret, emsg, "failure")
  [] p = "bg_w25" ->
    Ent("processing", 25, "transcription", << >>, "pf_w25", "bg_exc", ret, emsg, "none")
  [] p = "bg_tf" ->
    Ent("failed", 25, "transcription", emsg, "done", "bg_exc", ret, emsg, "failure")
  [] p = "bg_w50" ->
    Ent("processing", 50, "vector_storage", << >>, "st_w60", "bg_exc", ret, emsg, "none")
  [] p = "bg_sf" ->
    Ent("failed", 50, "vector_storage", emsg, "done", "bg_exc", ret, emsg, "failure")
  [] p = "bg_w75" ->
    Ent("processing", 75, "documentation", << >>, "bg_retr", "bg_exc", ret, emsg, "none")
  [] p = "bg_nf" ->
    Ent("failed", 75, "documentation", emsg, "done", "bg_exc", ret, emsg, "failure")
  [] p = "bg_gf" ->
    Ent("failed", 75, "documentation", emsg, "done", "bg_exc", ret, emsg, "failure")
  [] p = "bg_w100" ->
    Ent("completed", 100, "completed", << >>, "done", "bg_exc", ret, emsg, "success")
  [] p = "bg_exc" ->
    Ent("failed", 0, "error", exc, "done", "bg_crash", ret, exc, "failure")

WritePcs ==
  { "sv_w10", "val_w20", "val_wf", "val_h",
    "pf_w25", "pf_wf25", "pf_w40", "pf_w50", "pf_wf50", "pf_w60", "pf_h",
    "st_w60", "st_w70", "st_wf0", "st_h",
    "ag_w75", "ag_h", "g_aw", "g_w100", "g_h", "sg_w100", "sg_h",
    "sa_w75", "sa_w100", "sa_wf", "sa_h",
    "bg_w10", "bg_vf", "bg_w25", "bg_tf", "bg_w50", "bg_sf", "bg_w75",
    "bg_nf", "bg_gf", "bg_w100", "bg_exc" }

WriteAt(p) ==
  CASE p = "sv_w10" -> SaveFileWrites(p)
    [] p \in {"val_w20", "val_wf", "val_h"} -> ValidateFileWrites(p)
    [] p \in {"pf_w25", "pf_wf25", "pf_w40", "pf_w50", "pf_wf50", "pf_w60", "pf_h"}
         -> ProcessFileWrites(p)
    [] p \in {"st_w60", "st_w70", "st_wf0", "st_h"} -> StoreTranscriptionWrites(p)
    [] p \in {"ag_w75", "ag_h"} -> DocumentationAgentWrites(p)
    [] p \in {"g_aw", "g_w100", "g_h"} -> DocumentationGeneratorWrites(p)
    [] p \in {"sg_w100", "sg_h"} -> SOWGeneratorWrites(p)
    [] p \in {"sa_w75", "sa_w100", "sa_wf", "sa_h"} -> SOWAgentWrites(p)
    [] OTHER -> ProcessMediaFileWrites(p)

\* models/database.py, the definition of update_processing_status in force
\* (the second one): the record is rebuilt from the arguments, and the error
\* is kept only when it is truthy.
StatusRecord(st, pr, sg, err) ==
  [status |-> st, progress |-> pr, stage |-> sg,
   err |-> IF err # << >> THEN err ELSE << >>]

NoTranscript == [raw |-> -1, strip |-> -1]

RunInit ==
  /\ status = [f \in Files |-> NoRec]
  /\ tstore = [f \in Files |-> NoTranscript]
  /\ docFile = [f \in Files |-> NoDocObj]
  /\ docs = << >>
  /\ docIndex = [f \in Files |-> NoDoc]
  /\ nextDoc = 0
  /\ nruns = 0
  /\ pc = "idle"
  /\ run = NoRun
  /\ attempt = 0
  /\ transcript = NoTranscript
  /\ content = NoText
  /\ doc = NoDocObj
  /\ exc = << >>
  /\ emsg = << >>
  /\ ret = "none"
  /\ trace = << >>
  /\ res = NoRes
  /\ result = NoResult
  /\ idx0 = NoDoc
  /\ outs = {}

PipelineInit == RunInit /\ nfaults = 0

Requests == {"r1", "r2"}

RequestsInit ==
  /\ gpc = [r \in Requests |-> "idle"]
  /\ gdoc = [r \in Requests |-> NoDoc]
  /\ ngen = 0

Formats == {"pdf", "docx", "html"}
NoDl == [doc |-> NoDoc, path |-> "none", url |-> << >>]
NoQuery == [kind |-> "none", found |-> FALSE, code |-> 0]

ApiInit ==
  /\ dlInfo = [x \in Formats |-> NoDl]
  /\ artifact = [x \in Formats |-> FALSE]
  /\ dlog = << >>
  /\ qres = NoQuery

NoOutput == [is_valid |-> FALSE, quality_score |-> <<0, 1>>, issues |-> << >>,
             returned |-> FALSE]

NoPrev == [mode |-> "none", docType |-> "none", kind |-> "none",
           trace |-> << >>]

ModesInit == prev = NoPrev

Coroutines == {"c1", "c2"}
Keys == {"k1", "k2"}
Absent == "absent"
\* "object" is a value json.dumps cannot serialize
Values == {"v1", "v2", "object"}
EmptyDict == [k \in Keys |-> Absent]
JsonFile(d) == [state |-> "json", data |-> d]
NoOp == [kind |-> "none", key |-> "none", value |-> Absent]

\* _ensure_db_exists has written "{}"
JsondbInit ==
  /\ dbfile = JsonFile(EmptyDict)
  /\ lock = "free"
  /\ cpc = [c \in Coroutines |-> "idle"]
  /\ cop = [c \in Coroutines |-> NoOp]
  /\ clocal = [c \in Coroutines |-> EmptyDict]
  /\ cres = [c \in Coroutines |-> "none"]
  /\ expected = EmptyDict
  /\ nops = 0
  /\ dbfaults = 0
  /\ overlap = FALSE
  /\ anyFailed = FALSE

\* A specification exercises one part of the program; the variables of the
\* other parts stay at Unused in it.
Unused == "unused"

RequestsOff ==
  /\ gpc = Unused /\ gdoc = Unused /\ ngen = Unused

ApiOff ==
  /\ dlInfo = Unused /\ artifact = Unused /\ dlog = Unused /\ qres = Unused

ValOff ==
  /\ vin = Unused /\ vout = Unused

ModesOff == prev = Unused

JsondbOff ==
  /\ dbfile = Unused /\ lock = Unused /\ cpc = Unused /\ cop = Unused
  /\ clocal = Unused /\ cres = Unused /\ expected = Unused
  /\ nops = Unused /\ dbfaults = Unused /\ overlap = Unused
  /\ anyFailed = Unused

StatusdbOff == sdb = Unused

AuxOff ==
  RequestsOff /\ ApiOff /\ ValOff /\ ModesOff /\ JsondbOff /\ StatusdbOff

\* an OSError carries a message; an exception raised without arguments
\* (asyncio.TimeoutError(), a bare assert) has the empty str()
FaultMessages == { << >>, <<"io error">> }

FaultMsgInit == fmsg = <<"io error">>

Init == PipelineInit /\ AuxOff /\ FaultMsgInit

\* the same program, the failing write raising either kind of exception
InitFaultMsg == PipelineInit /\ AuxOff /\ fmsg \in FaultMessages

InitRequests ==
  /\ PipelineInit /\ FaultMsgInit
  /\ RequestsInit /\ ApiOff /\ ValOff /\ ModesOff /\ JsondbOff
  /\ StatusdbOff

InitApi ==
  /\ PipelineInit /\ FaultMsgInit
  /\ RequestsOff /\ ApiInit /\ ValOff /\ ModesOff /\ JsondbOff
  /\ StatusdbOff

InitJsondb ==
  /\ PipelineInit /\ FaultMsgInit
  /\ RequestsOff /\ ApiOff /\ ValOff /\ ModesOff /\ JsondbInit
  /\ StatusdbOff

AgentEntry(t) == IF IsSowLike(t) THEN "sa_w75" ELSE "ag_w75"

FirstPc(m, t) ==
  CASE m = "sync" -> "up_save"
    [] m = "bg" -> "bg_select"
    [] OTHER -> AgentEntry(t)

\* A request arrives.  upload_file draws a fresh file_id, so nothing is yet
\* stored under it; process_media_file and the agents take the file_id (and
\* process_media_file the document type, a plain string) from their caller.
StartRun ==
  /\ pc \in {"idle", "done"}
  /\ nruns < MaxRuns
  /\ \E m \in Modes, f \in Files, t \in DocTypes \cup {"XXX"} :
       /\ m = "sync" => /\ status[f] = NoRec
                        /\ tstore[f] = NoTranscript
                        /\ docIndex[f] = NoDoc
       /\ m # "bg" => t \in DocTypes
       /\ run' = [mode |-> m, fid |-> f, docType |-> t]
       /\ pc' = FirstPc(m, t)
       /\ idx0' = docIndex[f]
  /\ nruns' = nruns + 1
  /\ attempt' = 0
  /\ transcript' = NoTranscript
  /\ content' = NoText
  /\ doc' = NoDocObj
  /\ exc' = << >>
  /\ emsg' = << >>
  /\ ret' = "none"
  /\ trace' = << >>
  /\ res' = NoRes
  /\ result' = NoResult
  /\ outs' = {}
  /\ UNCHANGED <<ledger, nfaults, aux>>

\* update_processing_status returns normally
UpdateStatusOk ==
  /\ pc \in WritePcs
  /\ LET w == WriteAt(pc)
         r == StatusRecord(w.st, w.pr, w.sg, w.err)
     IN /\ status' = [status EXCEPT ![run.fid] = r]
        /\ trace' = Append(trace, WriteEv(r))
        /\ pc' = w.ok
        /\ ret' = w.ret
        /\ emsg' = w.emsg
        /\ result' = IF w.fin = "none" THEN result
                     ELSE [kind |-> w.fin, stage |-> w.sg, msg |-> w.emsg]
  /\ UNCHANGED <<tstore, docFile, docs, docIndex, nextDoc, nruns, aux, nfaults,
                 run, attempt, transcript, content, doc, exc, res, idx0, outs>>

\* a write of a ledger namespace or of a document file raises; control goes
\* to the except clause h that encloses the statement
Raise(h, msg) ==
  /\ exc' = msg
  /\ pc' = h

Fault(h) ==
  /\ nfaults < MaxFaults
  /\ nfaults' = nfaults + 1
  /\ trace' = Append(trace, FaultEv)
  /\ Raise(h, fmsg)

\* update_processing_status raises (status_db.set fails)
UpdateStatusFault ==
  /\ pc \in WritePcs
  /\ Fault(WriteAt(pc).ex)
  /\ UNCHANGED <<ledger, nruns, aux, run, attempt, transcript, content, doc,
                 emsg, ret, res, result, idx0, outs>>

Finish(kind, stage, msg) ==
  /\ result' = [kind |-> kind, stage |-> stage, msg |-> msg]
  /\ pc' = "done"

\* ------------------------------------------------------------ upload_file
SaveFile ==
  /\ pc = "up_save"
  /\ \/ pc' = "sv_w10" /\ exc' = exc
     \/ Raise("up_exc", <<"Error saving file">>)
  /\ UNCHANGED <<ledger, nruns, aux, nfaults, run, attempt, transcript, content,
                 doc, emsg, ret, hist>>

\* upload_file without the "if not validation_result['valid']" return
UploadAfterValidate_NoReturn ==
  /\ pc = "val_ret" /\ run.mode = "sync"
  /\ res' = [res EXCEPT !.validation = ret]
  /\ pc' = "pf_w25" /\ result' = result
  /\ UNCHANGED <<ledger, nruns, aux, nfaults, locals, trace, idx0, outs>>

UploadAfterValidate ==
  /\ pc = "val_ret" /\ run.mode = "sync"
  /\ res' = [res EXCEPT !.validation = ret]
  /\ IF ret = "ok"
       THEN pc' = "pf_w25" /\ result' = result
       ELSE Finish("failure", "validation", emsg)
  /\ UNCHANGED <<ledger, nruns, aux, nfaults, locals, trace, idx0, outs>>

\* upload_file without the "if not processing_result['success']" return
UploadAfterProcess_NoReturn ==
  /\ pc = "pf_ret" /\ run.mode = "sync"
  /\ res' = [res EXCEPT !.transcription = ret]
  /\ pc' = "st_w60" /\ result' = result
  /\ UNCHANGED <<ledger, nruns, aux, nfaults, locals, trace, idx0, outs>>

UploadAfterProcess ==
  /\ pc = "pf_ret" /\ run.mode = "sync"
  /\ res' = [res EXCEPT !.transcription = ret]
  /\ IF ret = "ok"
       THEN pc' = "st_w60" /\ result' = result
       ELSE Finish("failure", "transcription", emsg)
  /\ UNCHANGED <<ledger, nruns, aux, nfaults, locals, trace, idx0, outs>>

UploadAfterStore ==
  /\ pc = "st_ret" /\ run.mode = "sync"
  /\ res' = [res EXCEPT !.storage = ret]
  /\ IF ret = "ok"
       THEN pc' = AgentEntry(run.docType) /\ result' = result
       ELSE Finish("failure", "vector_storage", emsg)
  /\ UNCHANGED <<ledger, nruns, aux, nfaults, locals, trace, idx0, outs>>

UploadAfterGenerate ==
  /\ pc = "ag_ret" /\ run.mode = "sync"
  /\ res' = [res EXCEPT !.generation = ret]
  /\ IF ret = "ok"
       THEN Finish("success", "documentation", << >>)
       ELSE Finish("failure", "documentation", emsg)
  /\ UNCHANGED <<ledger, nruns, aux, nfaults, locals, trace, idx0, outs>>

\* except Exception: raise HTTPException(500) -- no status is written
UploadExc ==
  /\ pc = "up_exc"
  /\ Finish("http500", "none", exc)
  /\ UNCHANGED <<ledger, nruns, aux, nfaults, locals, trace, res, idx0, outs>>

\* ----------------------------------------------------- process_media_file
BgSelectAgent ==
  /\ pc = "bg_select"
  /\ IF run.docType \in DocTypes
       THEN pc' = "bg_w10" /\ exc' = exc
       ELSE Raise("bg_exc", <<"Unsupported document type">>)
  /\ UNCHANGED <<ledger, nruns, aux, nfaults, run, attempt, transcript, content,
                 doc, emsg, ret, hist>>

BgAfterValidate ==
  /\ pc = "val_ret" /\ run.mode = "bg"
  /\ res' = [res EXCEPT !.validation = ret]
  /\ pc' = IF ret = "ok" THEN "bg_w25" ELSE "bg_vf"
  /\ UNCHANGED <<ledger, nruns, aux, nfaults, locals, trace, result, idx0, outs>>

\* process_media_file handing the transcript to the store with neither the
\* orchestrator's nor the agent's "processing" write
BgAfterProcess_NoStatus ==
  /\ pc = "pf_ret" /\ run.mode = "bg"
  /\ res' = [res EXCEPT !.transcription = ret]
  /\ pc' = IF ret = "ok" THEN "st_store" ELSE "bg_tf"
  /\ UNCHANGED <<ledger, nruns, aux, nfaults, locals, trace, result, idx0, outs>>

BgAfterProcess ==
  /\ pc = "pf_ret" /\ run.mode = "bg"
  /\ res' = [res EXCEPT !.transcription = ret]
  /\ pc' = IF ret = "ok" THEN "bg_w50" ELSE "bg_tf"
  /\ UNCHANGED <<ledger, nruns, aux, nfaults, locals, trace, result, idx0, outs>>

BgAfterStore ==
  /\ pc = "st_ret" /\ run.mode = "bg"
  /\ res' = [res EXCEPT !.storage = ret]
  /\ pc' = IF ret = "ok" THEN "bg_w75" ELSE "bg_sf"
  /\ UNCHANGED <<ledger, nruns, aux, nfaults, locals, trace, result, idx0, outs>>

BgRetrieve ==
  /\ pc = "bg_retr"
  /\ IF tstore[run.fid] # NoTranscript
       THEN pc' = AgentEntry(run.docType) /\ emsg' = emsg
       ELSE /\ pc' = "bg_nf"
            /\ emsg' = <<"Failed to retrieve transcription">>
  /\ UNCHANGED <<ledger, nruns, aux, nfaults, run, attempt, transcript, content,
                 doc, exc, ret, hist>>

BgAfterGenerate ==
  /\ pc = "ag_ret" /\ run.mode = "bg"
  /\ res' = [res EXCEPT !.generation = ret]
  /\ pc' = IF ret = "ok" THEN "bg_w100" ELSE "bg_gf"
  /\ UNCHANGED <<ledger, nruns, aux, nfaults, locals, trace, result, idx0, outs>>

\* the status write of the outermost except clause raised: the task dies
BgCrash ==
  /\ pc = "bg_crash"
  /\ Finish("unhandled", "none", exc)
  /\ UNCHANGED <<ledger, nruns, aux, nfaults, locals, trace, res, idx0, outs>>

\* ------------------------------- a caller of the agent's generate method
GenAfterGenerate ==
  /\ pc = "ag_ret" /\ run.mode = "gen"
  /\ res' = [res EXCEPT !.generation = ret]
  /\ IF ret = "ok"
       THEN Finish("success", "documentation", << >>)
       ELSE Finish("failure", "documentation", emsg)
  /\ UNCHANGED <<ledger, nruns, aux, nfaults, locals, trace, idx0, outs>>

GenExc ==
  /\ pc = "gen_exc"
  /\ Finish("raised", "none", exc)
  /\ UNCHANGED <<ledger, nruns, aux, nfaults, locals, trace, res, idx0, outs>>

\* ------------------------------------------------------------- the agents
\* FileValidationTool._arun: returns a verdict, never raises
ValidateTool ==
  /\ pc = "val_tool"
  /\ trace' = Append(trace, CallEv("validator"))
  /\ \/ pc' = "val_ret" /\ ret' = "ok" /\ emsg' = emsg
     \/ pc' = "val_wf" /\ ret' = ret /\ emsg' = <<"Invalid file type">>
  /\ UNCHANGED <<ledger, nruns, aux, nfaults, run, attempt, transcript, content,
                 doc, exc, res, result, idx0, outs>>

\* FFmpegTool._arun on a video; an audio file skips the extraction
ExtractAudio ==
  /\ pc = "pf_extract"
  /\ trace' = Append(trace, CallEv("extractor"))
  /\ \/ pc' = "pf_w40" /\ emsg' = emsg
     \/ pc' = "pf_wf25" /\ emsg' = <<"Error extracting audio">>
  /\ UNCHANGED <<ledger, nruns, aux, nfaults, run, attempt, transcript, content,
                 doc, exc, ret, res, result, idx0, outs>>

\* WhisperTool._arun -> MediaProcessor.transcribe_audio: any text Whisper
\* returns, the empty one included, comes back with success = True
TranscribeAudio(t) ==
  [success |-> TRUE, transcription |-> t]

Transcribe ==
  /\ pc = "pf_whisper"
  /\ trace' = Append(trace, CallEv("transcriber"))
  /\ \/ /\ pc' = "pf_wf50"
        /\ emsg' = <<"Error transcribing audio">>
        /\ transcript' = transcript
     \/ \E t \in Transcripts :
          /\ TranscribeAudio(t).success
          /\ transcript' = TranscribeAudio(t).transcription
          /\ pc' = "pf_w60"
          /\ emsg' = emsg
  /\ UNCHANGED <<ledger, nruns, aux, nfaults, run, attempt, content,
                 doc, exc, ret, res, result, idx0, outs>>

\* LocalStorageService.store_transcription: writes the transcript file, or
\* catches its own error and returns success = False
StoreTranscript ==
  /\ pc = "st_store"
  /\ trace' = Append(trace, CallEv("storage"))
  /\ \/ /\ tstore' = [tstore EXCEPT ![run.fid] = transcript]
        /\ pc' = "st_w70"
        /\ emsg' = emsg
     \/ /\ tstore' = tstore
        /\ pc' = "st_wf0"
        /\ emsg' = <<"Error storing transcription">>
  /\ UNCHANGED <<status, docFile, docs, docIndex, nextDoc, nruns, aux, nfaults,
                 run, attempt, transcript, content, doc, exc, ret, res,
                 result, idx0, outs>>

\* ------------------------------------------- the BRD generator and agent
TooShort(t, min) == t.raw = 0 \/ t.strip < min

\* _get_transcription_with_retry, then _validate_transcription
GetTranscription ==
  /\ pc = "g_start"
  /\ LET t == tstore[run.fid]
     IN IF t = NoTranscript
          THEN Raise("g_h", <<"No transcription found">>)
               /\ transcript' = transcript
          ELSE IF TooShort(t, MinTranscriptBRD)
            THEN Raise("g_h", <<"Transcription is too short or empty">>)
                 /\ transcript' = t
            ELSE pc' = "g_aw" /\ exc' = exc /\ transcript' = t
  /\ attempt' = 0
  /\ UNCHANGED <<ledger, nruns, aux, nfaults, run, content, doc, emsg, ret, hist>>

\* the retry loop without the "content and len(content.strip()) > 100" test
ContentAccepted_Any(c) == c.raw >= 0

ContentAccepted(c) == c.raw # 0 /\ c.strip > MinContentLen

Refused(c) == IF c.raw = 0 THEN "empty" ELSE "rejected"

\* llm_service.generate_response inside the retry loop
Generate ==
  /\ pc = "g_call"
  /\ \/ /\ Raise("g_afail", <<"provider error", AttemptTag[attempt + 1]>>)
        /\ content' = content
        /\ trace' = Append(trace, CallEv("generator"))
        /\ outs' = outs \cup {"raise"}
     \/ \E c \in Contents :
          IF ContentAccepted(c)
            THEN /\ pc' = "g_build" /\ content' = c /\ exc' = exc
                 /\ trace' = Append(trace, CallEv("generator"))
                 /\ outs' = outs \cup {"accepted"}
            ELSE /\ Raise("g_afail", <<"Generated content is too short or empty",
                                       AttemptTag[attempt + 1]>>)
                 /\ content' = content
                 /\ trace' = Append(trace, CallEv("generator"))
                 /\ outs' = outs \cup {Refused(c)}
  /\ UNCHANGED <<ledger, nruns, aux, nfaults, run, attempt, transcript, doc,
                 emsg, ret, res, result, idx0>>

\* the retry loop giving up one attempt early
AttemptFailed_OneShort ==
  /\ pc = "g_afail"
  /\ IF attempt >= MaxRetries - 2
       THEN pc' = "g_h" /\ attempt' = attempt
       ELSE pc' = "g_aw" /\ attempt' = attempt + 1
  /\ UNCHANGED <<ledger, nruns, aux, nfaults, run, transcript, content, doc,
                 exc, emsg, ret, hist>>

\* except Exception as e: the last attempt re-raises, the others go on
AttemptFailed ==
  /\ pc = "g_afail"
  /\ IF attempt = MaxRetries - 1
       THEN pc' = "g_h" /\ attempt' = attempt
       ELSE pc' = "g_aw" /\ attempt' = attempt + 1
  /\ UNCHANGED <<ledger, nruns, aux, nfaults, run, transcript, content, doc,
                 exc, emsg, ret, hist>>

\* the documentation dict, with a new documentation_id
NewDoc(id, f, c, t) ==
  [id |-> id, fid |-> f, content |-> c, docType |-> t, pdf |-> FALSE]

BuildDocument ==
  /\ pc \in {"g_build", "sg_build"}
  /\ nextDoc' = nextDoc + 1
  /\ doc' = NewDoc(nextDoc + 1, run.fid, content, run.docType)
  /\ pc' = IF pc = "g_build" THEN "g_save" ELSE "sg_sv1"
  /\ UNCHANGED <<status, tstore, docFile, docs, docIndex, nruns, aux, nfaults,
                 run, attempt, transcript, content, exc, emsg, ret, hist>>

\* _save_documentation: json.dump to data/documentations/<file_id>.json
SaveDocumentation ==
  /\ pc = "g_save"
  /\ \/ /\ docFile' = [docFile EXCEPT ![run.fid] = doc]
        /\ pc' = "g_pdf"
        /\ UNCHANGED <<exc, nfaults, trace>>
     \/ Fault("g_h") /\ docFile' = docFile
  /\ UNCHANGED <<status, tstore, docs, docIndex, nextDoc, nruns, aux,
                 run, attempt, transcript, content, doc, emsg, ret,
                 res, result, idx0, outs>>

Renderer(n) == [i \in 1..n |-> CallEv("renderer")]

GeneratePdf_Raises ==
  /\ pc = "g_pdf"
  /\ \/ /\ trace' = trace \o Renderer(1)
        /\ doc' = [doc EXCEPT !.pdf = TRUE]
        /\ docFile' = [docFile EXCEPT ![run.fid] = doc']
        /\ pc' = "g_st1"
        /\ exc' = exc
     \/ /\ trace' = trace \o Renderer(MaxRetries)
        /\ doc' = doc
        /\ docFile' = docFile
        /\ Raise("g_h", <<"pdf error">>)
  /\ UNCHANGED <<status, tstore, docs, docIndex, nextDoc, nruns, aux, nfaults,
                 run, attempt, transcript, content, emsg, ret, res,
                 result, idx0, outs>>

\* _generate_pdf_with_retry and _update_documentation_file: a path, or None
\* after MaxRetries failed attempts; never raises
GeneratePdf ==
  /\ pc = "g_pdf"
  /\ \/ /\ trace' = trace \o Renderer(1)
        /\ doc' = [doc EXCEPT !.pdf = TRUE]
        /\ docFile' = [docFile EXCEPT ![run.fid] = doc']
     \/ /\ trace' = trace \o Renderer(MaxRetries)
        /\ doc' = doc
        /\ docFile' = docFile
  /\ pc' = "g_st1"
  /\ UNCHANGED <<status, tstore, docs, docIndex, nextDoc, nruns, aux, nfaults,
                 run, attempt, transcript, content, exc, emsg, ret, res,
                 result, idx0, outs>>

\* DocumentationAgent.generate_documentation after the generator returned
AgentAfterGenerator ==
  /\ pc = "g_ret"
  /\ IF ret = "ok"
       THEN pc' = "ag_ret" /\ exc' = exc
       ELSE Raise("ag_h", emsg)
  /\ UNCHANGED <<ledger, nruns, aux, nfaults, run, attempt, transcript, content,
                 doc, emsg, ret, hist>>

\* ----------------------------------------------------- models/database.py
\* the statement after each of the two sets of store_documentation
StoreNext(p) ==
  CASE p = "g_st1" -> "g_st2"
    [] p = "g_st2" -> "g_w100"
    [] p = "sg_sv1" -> "sg_sv2"
    [] p = "sg_sv2" -> "sg_svf"
    [] p = "sg_st1" -> "sg_st2"
    [] p = "sg_st2" -> "sg_w100"

StoreHandler(p) == IF p \in {"g_st1", "g_st2"} THEN "g_h" ELSE "sg_h"

\* store_documentation without its first set
StoreRecord_Dropped ==
  /\ pc \in {"g_st1", "sg_sv1", "sg_st1"}
  /\ \/ /\ docs' = docs
        /\ pc' = StoreNext(pc)
        /\ UNCHANGED <<exc, nfaults, trace>>
     \/ Fault(StoreHandler(pc)) /\ docs' = docs
  /\ UNCHANGED <<status, tstore, docFile, docIndex, nextDoc, nruns, aux,
                 run, attempt, transcript, content, doc, emsg, ret,
                 res, result, idx0, outs>>

\* store_documentation, first set: documentation_id -> record
StoreRecord ==
  /\ pc \in {"g_st1", "sg_sv1", "sg_st1"}
  /\ \/ /\ docs' = (doc.id :> doc) @@ docs
        /\ pc' = StoreNext(pc)
        /\ UNCHANGED <<exc, nfaults, trace>>
     \/ Fault(StoreHandler(pc)) /\ docs' = docs
  /\ UNCHANGED <<status, tstore, docFile, docIndex, nextDoc, nruns, aux,
                 run, attempt, transcript, content, doc, emsg, ret,
                 res, result, idx0, outs>>

\* store_documentation setting "file_<file_id>" only when it is absent
StoreIndex_KeepFirst ==
  /\ pc \in {"g_st2", "sg_sv2", "sg_st2"}
  /\ \/ /\ docIndex' = IF docIndex[run.fid] = NoDoc
                         THEN [docIndex EXCEPT ![run.fid] = doc.id]
                         ELSE docIndex
        /\ pc' = StoreNext(pc)
        /\ UNCHANGED <<exc, nfaults, trace>>
     \/ Fault(StoreHandler(pc)) /\ docIndex' = docIndex
  /\ UNCHANGED <<status, tstore, docFile, docs, nextDoc, nruns, aux,
                 run, attempt, transcript, content, doc, emsg, ret,
                 res, result, idx0, outs>>

\* store_documentation, second set: "file_<file_id>" -> documentation_id
StoreIndex ==
  /\ pc \in {"g_st2", "sg_sv2", "sg_st2"}
  /\ \/ /\ docIndex' = [docIndex EXCEPT ![run.fid] = doc.id]
        /\ pc' = StoreNext(pc)
        /\ UNCHANGED <<exc, nfaults, trace>>
     \/ Fault(StoreHandler(pc)) /\ docIndex' = docIndex
  /\ UNCHANGED <<status, tstore, docFile, docs, nextDoc, nruns, aux,
                 run, attempt, transcript, content, doc, emsg, ret,
                 res, result, idx0, outs>>

\* get_documentation(file_id)
GetDocumentation(f) ==
  IF docIndex[f] # NoDoc /\ docIndex[f] \in DOMAIN docs
    THEN docs[docIndex[f]]
    ELSE NoDocObj

\* ------------------------------------ the SOW / FRD generators and agents
SowGetTranscription ==
  /\ pc = "sg_start"
  /\ LET t == tstore[run.fid]
     IN IF t = NoTranscript
          THEN Raise("sg_h", <<"NoneType object has no attribute get">>)
               /\ transcript' = transcript
          ELSE IF TooShort(t, MinTranscriptSOW)
            THEN Raise("sg_h", <<"Invalid or insufficient transcription content">>)
                 /\ transcript' = t
            ELSE pc' = "sg_call" /\ exc' = exc /\ transcript' = t
  /\ attempt' = 0
  /\ UNCHANGED <<ledger, nruns, aux, nfaults, run, content, doc, emsg, ret, hist>>

\* SOWValidator.validate_content / FRDValidator.validate_content: valid when
\* no required section is missing
SowContentValid(c) == c.complete

\* one turn of the loop of _generate_content_with_retry
SowGenerate ==
  /\ pc = "sg_call"
  /\ \/ /\ content' = content
        /\ trace' = Append(trace, CallEv("generator"))
        /\ outs' = outs \cup {"raise"}
        /\ IF attempt < MaxRetries - 1
             THEN pc' = "sg_call" /\ attempt' = attempt + 1 /\ exc' = exc
             ELSE Raise("sg_h", <<"provider error", AttemptTag[attempt + 1]>>)
                  /\ attempt' = attempt
     \/ \E c \in Contents :
          IF SowContentValid(c)
            THEN /\ pc' = "sg_build" /\ content' = c /\ exc' = exc
                 /\ attempt' = attempt
                 /\ trace' = Append(trace, CallEv("generator"))
                 /\ outs' = outs \cup {"accepted"}
            ELSE /\ content' = content
                 /\ trace' = Append(trace, CallEv("generator"))
                 /\ outs' = outs \cup {Refused(c)}
                 /\ IF attempt < MaxRetries - 1
                      THEN pc' = "sg_call" /\ attempt' = attempt + 1
                           /\ exc' = exc
                      ELSE Raise("sg_h", <<"Failed to generate valid content",
                                           AttemptTag[attempt + 1]>>)
                           /\ attempt' = attempt
  /\ UNCHANGED <<ledger, nruns, aux, nfaults, run, transcript, doc,
                 emsg, ret, res, result, idx0>>

\* _save_documentation after its store_documentation: the file write
SowSaveFile ==
  /\ pc = "sg_svf"
  /\ \/ /\ docFile' = [docFile EXCEPT ![run.fid] = doc]
        /\ pc' = "sg_pdf"
        /\ UNCHANGED <<exc, nfaults, trace>>
     \/ Fault("sg_h") /\ docFile' = docFile
  /\ UNCHANGED <<status, tstore, docs, docIndex, nextDoc, nruns, aux,
                 run, attempt, transcript, content, doc, emsg, ret,
                 res, result, idx0, outs>>

\* _generate_pdf_with_retry awaits the plain value generate_pdf_from_json
\* returned: every attempt raises and the result is None
SowGeneratePdf ==
  /\ pc = "sg_pdf"
  /\ trace' = trace \o Renderer(MaxRetries)
  /\ pc' = "sg_st1"
  /\ UNCHANGED <<ledger, nruns, aux, nfaults, locals, res, result, idx0, outs>>

\* SOWAgent / FRDAgent.generate_documentation after the generator returned
SowAgentAfterGenerator ==
  /\ pc = "sg_ret"
  /\ pc' = IF ret = "ok" THEN "sa_w100" ELSE "sa_wf"
  /\ UNCHANGED <<ledger, nruns, aux, nfaults, locals, hist>>

Next ==
  \/ StartRun
  \/ UpdateStatusOk
  \/ UpdateStatusFault
  \/ SaveFile
  \/ UploadAfterValidate
  \/ UploadAfterProcess
  \/ UploadAfterStore
  \/ UploadAfterGenerate
  \/ UploadExc
  \/ BgSelectAgent
  \/ BgAfterValidate
  \/ BgAfterProcess
  \/ BgAfterStore
  \/ BgRetrieve
  \/ BgAfterGenerate
  \/ BgCrash
  \/ GenAfterGenerate
  \/ GenExc
  \/ ValidateTool
  \/ ExtractAudio
  \/ Transcribe
  \/ StoreTranscript
  \/ GetTranscription
  \/ Generate
  \/ AttemptFailed
  \/ BuildDocument
  \/ SaveDocumentation
  \/ GeneratePdf
  \/ AgentAfterGenerator
  \/ StoreRecord
  \/ StoreIndex
  \/ SowGetTranscription
  \/ SowGenerate
  \/ SowSaveFile
  \/ SowGeneratePdf
  \/ SowAgentAfterGenerator

Spec == Init /\ [][Next]_vars

SpecFaultMsg == InitFaultMsg /\ [][Next]_vars

\* ------------------------------------------- concurrent generation requests
\* Every request is for the same file_id.  A request is one call of
\* DocumentationAgent.generate_documentation; it gives up the event loop at
\* each await, where another request can arrive and run.
MaxRequests == 3

TheFile == CHOOSE f \in Files : TRUE

\* the call is made: nothing in the agent looks at requests in progress
ReqArrive(r) ==
  /\ gpc[r] = "idle"
  /\ ngen < MaxRequests
  /\ ngen' = ngen + 1
  /\ gpc' = [gpc EXCEPT ![r] = "ag_w75"]
  /\ gdoc' = [gdoc EXCEPT ![r] = NoDoc]
  /\ UNCHANGED <<ledger, pipeline, auxButRequests>>

\* await update_processing_status(processing, 75, documentation)
ReqStatus75(r) ==
  /\ gpc[r] = "ag_w75"
  /\ status' = [status EXCEPT ![TheFile] =
                  StatusRecord("processing", 75, "documentation", << >>)]
  /\ gpc' = [gpc EXCEPT ![r] = "g_call"]
  /\ UNCHANGED <<tstore, docFile, docs, docIndex, nextDoc, pipeline, gdoc, ngen,
               auxButRequests>>

\* await self.generator.generate_documentation up to the built document,
\* or up to the exception that ends it
ReqGenerate(r) ==
  /\ gpc[r] = "g_call"
  /\ \/ /\ nextDoc' = nextDoc + 1
        /\ gdoc' = [gdoc EXCEPT ![r] = nextDoc + 1]
        /\ gpc' = [gpc EXCEPT ![r] = "g_st1"]
     \/ /\ gpc' = [gpc EXCEPT ![r] = "g_h"]
        /\ UNCHANGED <<nextDoc, gdoc>>
  /\ UNCHANGED <<status, tstore, docFile, docs, docIndex, pipeline, ngen,
               auxButRequests>>

\* store_documentation without its first set
ReqStoreRecord_IndexOnly(r) ==
  /\ gpc[r] = "g_st1"
  /\ docs' = docs
  /\ gpc' = [gpc EXCEPT ![r] = "g_st2"]
  /\ UNCHANGED <<status, tstore, docFile, docIndex, nextDoc, pipeline, gdoc, ngen,
               auxButRequests>>

\* store_documentation, first set
ReqStoreRecord(r) ==
  /\ gpc[r] = "g_st1"
  /\ docs' = (gdoc[r] :>
                NewDoc(gdoc[r], TheFile,
                       [raw |-> 2000, strip |-> 2000, complete |-> TRUE], "BRD"))
             @@ docs
  /\ gpc' = [gpc EXCEPT ![r] = "g_st2"]
  /\ UNCHANGED <<status, tstore, docFile, docIndex, nextDoc, pipeline, gdoc, ngen,
               auxButRequests>>

\* store_documentation, second set
ReqStoreIndex(r) ==
  /\ gpc[r] = "g_st2"
  /\ docIndex' = [docIndex EXCEPT ![TheFile] = gdoc[r]]
  /\ gpc' = [gpc EXCEPT ![r] = "g_w100"]
  /\ UNCHANGED <<status, tstore, docFile, docs, nextDoc, pipeline, gdoc, ngen,
               auxButRequests>>

\* await update_processing_status(completed, 100), then the return
ReqCompleted(r) ==
  /\ gpc[r] = "g_w100"
  /\ status' = [status EXCEPT ![TheFile] =
                  StatusRecord("completed", 100, "documentation", << >>)]
  /\ gpc' = [gpc EXCEPT ![r] = "idle"]
  /\ UNCHANGED <<tstore, docFile, docs, docIndex, nextDoc, pipeline, gdoc, ngen,
               auxButRequests>>

\* the except clauses: failed, 0, and the failure result
ReqFailed(r) ==
  /\ gpc[r] = "g_h"
  /\ status' = [status EXCEPT ![TheFile] =
                  StatusRecord("failed", 0, "documentation",
                               <<"Error in generate_documentation">>)]
  /\ gpc' = [gpc EXCEPT ![r] = "idle"]
  /\ UNCHANGED <<tstore, docFile, docs, docIndex, nextDoc, pipeline, gdoc, ngen,
               auxButRequests>>

NextRequests ==
  \/ \E r \in Requests : ReqArrive(r)
  \/ \E r \in Requests : ReqStatus75(r)
  \/ \E r \in Requests : ReqGenerate(r)
  \/ \E r \in Requests : ReqStoreRecord(r)
  \/ \E r \in Requests : ReqStoreIndex(r)
  \/ \E r \in Requests : ReqCompleted(r)
  \/ \E r \in Requests : ReqFailed(r)

SpecRequests == InitRequests /\ [][NextRequests]_vars

\* ------------------------------------------- read endpoints and the export
\* The ledger functions and the endpoints that read them, called one after
\* the other in any order, for one file_id.
MaxDocs == 2
MaxEvents == 3

\* store_documentation at the end of a generation: both sets
DocumentationStored ==
  /\ nextDoc < MaxDocs
  /\ nextDoc' = nextDoc + 1
  /\ docs' = ((nextDoc + 1) :>
                NewDoc(nextDoc + 1, TheFile,
                       [raw |-> 2000, strip |-> 2000, complete |-> TRUE], "BRD"))
             @@ docs
  /\ docIndex' = [docIndex EXCEPT ![TheFile] = nextDoc + 1]
  /\ UNCHANGED <<status, tstore, docFile, pipeline, auxButApi, api>>

\* update_processing_status for the file
StatusStored ==
  /\ \E w \in { <<"processing", 75>>, <<"completed", 100>> } :
       /\ status[TheFile] # StatusRecord(w[1], w[2], "documentation", << >>)
       /\ status' = [status EXCEPT ![TheFile] =
                       StatusRecord(w[1], w[2], "documentation", << >>)]
  /\ UNCHANGED <<tstore, docFile, docs, docIndex, nextDoc, pipeline,
                 auxButApi, api>>

\* "except HTTPException as he: raise he" keeps the code of an
\* HTTPException; without that clause "except Exception" receives it
\* (HTTPException is an Exception) and raises HTTPException(500)
Raised(code, reraisesHttp) == IF reraisesHttp THEN code ELSE 500

\* GET /status/{file_id}
GetStatus ==
  /\ LET found == status[TheFile] # NoRec
     IN qres' = [kind |-> "status", found |-> found,
                 code |-> IF found THEN 200 ELSE Raised(404, TRUE)]
  /\ qres' # qres
  /\ UNCHANGED <<ledger, pipeline, auxButApi, dlInfo, artifact, dlog>>

\* GET /documentation/{file_id}
GetDocumentationEndpoint ==
  /\ LET found == GetDocumentation(TheFile) # NoDocObj
     IN qres' = [kind |-> "documentation", found |-> found,
                 code |-> IF found THEN 200 ELSE Raised(404, FALSE)]
  /\ qres' # qres
  /\ UNCHANGED <<ledger, pipeline, auxButApi, dlInfo, artifact, dlog>>

Url(x) == <<TheFile, x>>

\* DocumentGenerator.generate_pdf / generate_docx / generate_html
RenderResult(x, ok) ==
  IF ok THEN [success |-> TRUE, file_path |-> x, download_url |-> Url(x)]
        ELSE [success |-> FALSE, message |-> <<"Error generating document">>]

\* DocumentGenerator.generate_document: what it returns for a render result
GenerateDocument(d, x, r) ==
  IF r.success
    THEN [success |-> TRUE, documentation_id |-> d, file_id |-> TheFile,
          download_url |-> r.download_url, format |-> x]
    ELSE r

\* prepare_download after generate_document: it reads result["file_path"]
\* to schedule the cleanup; a missing key is a KeyError, which the except
\* clause turns into a failure result
AfterGenerate(d, g) ==
  IF g.success
    THEN IF "file_path" \in DOMAIN g
           THEN [success |-> TRUE, url |-> g.download_url, doc |-> d]
           ELSE [success |-> FALSE, url |-> << >>, doc |-> NoDoc]
    ELSE [success |-> FALSE, url |-> << >>, doc |-> NoDoc]

\* doc is the documentation_id of the result, cur the one the ledger has
\* for the file when the request is made
ReqEv(x, out, rendered, made) ==
  [k |-> "req", fmt |-> x, ok |-> out.success, url |-> out.url,
   rendered |-> rendered, made |-> made, doc |-> out.doc,
   cur |-> docIndex[TheFile]]
DelEv(x) ==
  [k |-> "del", fmt |-> x, ok |-> TRUE, url |-> << >>,
   rendered |-> FALSE, made |-> FALSE, doc |-> NoDoc, cur |-> NoDoc]

\* DownloadAgent.prepare_download(file_id, format)
PrepareDownload(x) ==
  /\ Len(dlog) < MaxEvents
  /\ IF dlInfo[x] # NoDl /\ artifact[dlInfo[x].path]
       THEN /\ dlog' = Append(dlog, ReqEv(x, [success |-> TRUE,
                                              url |-> dlInfo[x].url,
                                              doc |-> dlInfo[x].doc],
                                          FALSE, FALSE))
            /\ UNCHANGED <<dlInfo, artifact>>
       ELSE IF GetDocumentation(TheFile) = NoDocObj
         THEN /\ dlog' = Append(dlog, ReqEv(x, [success |-> FALSE, url |-> << >>,
                                               doc |-> NoDoc],
                                            FALSE, FALSE))
              /\ UNCHANGED <<dlInfo, artifact>>
         ELSE \E ok \in BOOLEAN :
                LET d == GetDocumentation(TheFile).id
                    r == RenderResult(x, ok)
                    g == GenerateDocument(d, x, r)
                IN /\ artifact' = IF ok THEN [artifact EXCEPT ![x] = TRUE]
                                        ELSE artifact
                   /\ dlInfo' = IF ok
                                  THEN [dlInfo EXCEPT ![x] =
                                          [doc |-> d, path |-> r.file_path,
                                           url |-> r.download_url]]
                                  ELSE dlInfo
                   /\ dlog' = Append(dlog, ReqEv(x, AfterGenerate(d, g), TRUE, ok))
  /\ UNCHANGED <<ledger, pipeline, auxButApi, qres>>

\* the artifact is removed (the scheduled cleanup, or by hand)
DeleteArtifact(x) ==
  /\ Len(dlog) < MaxEvents
  /\ artifact[x]
  /\ artifact' = [artifact EXCEPT ![x] = FALSE]
  /\ dlog' = Append(dlog, DelEv(x))
  /\ UNCHANGED <<ledger, pipeline, auxButApi, dlInfo, qres>>

NextApi ==
  \/ DocumentationStored
  \/ StatusStored
  \/ GetStatus
  \/ GetDocumentationEndpoint
  \/ \E x \in Formats : PrepareDownload(x)
  \/ \E x \in Formats : DeleteArtifact(x)

SpecApi == InitApi /\ [][NextApi]_vars

\* ------------------------------------------------------ validate_content
\* DocumentationValidator.validate_content as a function of its arguments.
\* A content is known by its length, the length of its strip(), the number
\* of words of its split() and the phrases that occur in it; a phrase is
\* known by its letters and by the case it is written in.
Levels == {"Simple", "Intermediate", "Advanced"}
Forms == {"Title", "UPPER", "lower"}

Phrase(low, form) == [low |-> low, form |-> form]

\* str.lower()
Lower(p) == [p EXCEPT !.form = "lower"]

BaseSections ==
  << Phrase("executive summary", "Title"),
     Phrase("business objectives", "Title"),
     Phrase("requirements", "Title"),
     Phrase("implementation", "Title") >>

IntermediateSections ==
  << Phrase("current state analysis", "Title"),
     Phrase("solution architecture", "Title"),
     Phrase("risk assessment", "Title") >>

AdvancedSections ==
  << Phrase("strategic analysis", "Title"),
     Phrase("investment analysis", "Title"),
     Phrase("governance framework", "Title"),
     Phrase("risk management", "Title") >>

GetRequiredSections(level) ==
  CASE level = "Intermediate" -> BaseSections \o IntermediateSections
    [] level = "Advanced" -> BaseSections \o AdvancedSections
    [] OTHER -> BaseSections

ExpectedRanges(level) ==
  CASE level = "Intermediate" -> <<4000, 8000>>
    [] level = "Advanced" -> <<6000, 12000>>
    [] OTHER -> <<1500, 3000>>

ValidatorMinChars == 100
QualityThreshold == 70

\* the values of the float arithmetic, as fractions in lowest terms
RECURSIVE Gcd(_, _)
Gcd(a, b) == IF b = 0 THEN a ELSE Gcd(b, a % b)
Abs(n) == IF n < 0 THEN 0 - n ELSE n
Frac(n, d) ==
  LET g == Gcd(Abs(n), d)
  IN IF n >= 0 THEN << n \div g, d \div g >>
               ELSE << 0 - (Abs(n) \div g), d \div g >>
Whole(n) == <<n, 1>>
FDiv(x, y) == Frac(x[1] * y[2], x[2] * y[1])
FMul(x, y) == Frac(x[1] * y[1], x[2] * y[2])
FAdd(x, y) == Frac(x[1] * y[2] + y[1] * x[2], x[2] * y[2])
FSub(x, y) == Frac(x[1] * y[2] - y[1] * x[2], x[2] * y[2])
FMax(x, y) == IF x[1] * y[2] >= y[1] * x[2] THEN x ELSE y
FGe(x, y) == x[1] * y[2] >= y[1] * x[2]

\* "section.lower() in content.lower()" with the comparison left case
\* sensitive
Occurs_CaseSensitive(section, c) == section \in c.heads

\* section.lower() in content.lower()
Occurs(section, c) == Lower(section) \in {Lower(p) : p \in c.heads}

MissingSection(section) == [issue |-> "Missing section", section |-> section.low]
TooShortIssue == [issue |-> "Content too short or empty", section |-> "none"]

\* the loop over required_sections: found_sections and the issues, in order
RECURSIVE ScanSections(_, _)
ScanSections(required, c) ==
  IF required = << >>
    THEN [found |-> 0, issues |-> << >>]
    ELSE LET rest == ScanSections(Tail(required), c)
         IN IF Occurs(Head(required), c)
              THEN [found |-> rest.found + 1, issues |-> rest.issues]
              ELSE [found |-> rest.found,
                    issues |-> <<MissingSection(Head(required))>> \o rest.issues]

WordScore(word_count, level) ==
  LET min_words == ExpectedRanges(level)[1]
      max_words == ExpectedRanges(level)[2]
  IN IF min_words <= word_count /\ word_count <= max_words
       THEN Whole(100)
       ELSE FMax(Whole(0),
                 FSub(Whole(100),
                      FMul(FDiv(Whole(Abs(word_count - min_words)),
                                Whole(min_words)),
                           Whole(50))))

ValidateContent(c, level) ==
  IF c.raw = 0 \/ c.strip < ValidatorMinChars
    THEN [is_valid |-> FALSE, quality_score |-> Whole(0),
          issues |-> <<TooShortIssue>>, returned |-> TRUE]
    ELSE LET required_sections == GetRequiredSections(level)
             scan == ScanSections(required_sections, c)
             section_score ==
               FMul(FDiv(Whole(scan.found), Whole(Len(required_sections))),
                    Whole(100))
             word_score == WordScore(c.words, level)
             quality_score == FDiv(FAdd(section_score, word_score), Whole(2))
         IN [is_valid |-> FGe(quality_score, Whole(QualityThreshold)),
             quality_score |-> quality_score,
             issues |-> scan.issues,
             returned |-> TRUE]

\* the inputs: every subset of the base headings, the headings of a level in
\* one case, and texts on both sides of every limit of the function
Range(q) == {q[i] : i \in DOMAIN q}
Recase(S, form) == {Phrase(p.low, form) : p \in S}
HeadSets ==
  (SUBSET Range(BaseSections))
  \cup {Recase(Range(BaseSections), f) : f \in Forms}
  \cup {Range(GetRequiredSections(l)) : l \in Levels}
  \cup {Recase(Range(GetRequiredSections("Intermediate")), "UPPER")}

Chars(low) ==
  CASE low = "executive summary" -> 17
    [] low = "business objectives" -> 19
    [] low = "requirements" -> 12
    [] low = "implementation" -> 14
    [] low = "current state analysis" -> 22
    [] low = "solution architecture" -> 21
    [] low = "risk assessment" -> 15
    [] low = "strategic analysis" -> 18
    [] low = "investment analysis" -> 19
    [] low = "governance framework" -> 20
    [] OTHER -> 15

RECURSIVE HeadChars(_)
HeadChars(S) ==
  IF S = {} THEN 0
  ELSE LET p == CHOOSE q \in S : TRUE
       IN Chars(p.low) + 1 + HeadChars(S \ {p})

ShortShapes ==
  { [words |-> 0, strip |-> 0, pad |-> 0],
    [words |-> 0, strip |-> 0, pad |-> 120],
    [words |-> 6, strip |-> 66, pad |-> 0],
    [words |-> 6, strip |-> 66, pad |-> 40],
    [words |-> 20, strip |-> 99, pad |-> 0],
    [words |-> 20, strip |-> 99, pad |-> 1],
    [words |-> 20, strip |-> 100, pad |-> 0],
    [words |-> 60, strip |-> 240, pad |-> 0] }
WordCounts ==
  {450, 750, 1499, 1500, 3000, 3001, 4000, 4500, 6000, 8000, 8800, 12000}
LongShapes == { [words |-> w, strip |-> 6 * w, pad |-> 0] : w \in WordCounts }

Text(shape, heads) ==
  [raw |-> shape.strip + shape.pad, strip |-> shape.strip,
   words |-> shape.words, heads |-> heads]

Inputs ==
  { [content |-> Text(sh, hs), level |-> l] :
      sh \in {x \in ShortShapes \cup LongShapes : TRUE},
      hs \in HeadSets, l \in Levels }

InputsThatExist == {i \in Inputs : HeadChars(i.content.heads) <= i.content.strip + 1}

InitValidate ==
  /\ PipelineInit /\ FaultMsgInit
  /\ RequestsOff /\ ApiOff /\ ModesOff /\ JsondbOff /\ StatusdbOff
  /\ vin \in InputsThatExist
  /\ vout = NoOutput

Validate ==
  /\ ~vout.returned
  /\ vout' = ValidateContent(vin.content, vin.level)
  /\ UNCHANGED <<ledger, pipeline, auxButVal, vin>>

NextValidate == Validate

SpecValidate == InitValidate /\ [][NextValidate]_vars

\* ------------------------------------------------ two runs, one per mode
\* upload_file and then process_media_file on the file it stored, with no
\* failing write: the first run is kept when it has ended.
InitModes ==
  /\ RunInit /\ nfaults = MaxFaults
  /\ FaultMsgInit
  /\ RequestsOff /\ ApiOff /\ ValOff /\ ModesInit /\ JsondbOff
  /\ StatusdbOff

Remember ==
  /\ pc = "done"
  /\ prev = NoPrev
  /\ prev' = [mode |-> run.mode, docType |-> run.docType,
              kind |-> result.kind, trace |-> trace]
  /\ UNCHANGED <<ledger, pipeline, auxButModes>>

\* Next without the steps that only a failing write reaches
NextModes ==
  \/ Remember
  \/ StartRun
  \/ UpdateStatusOk
  \/ SaveFile
  \/ UploadAfterValidate
  \/ UploadAfterProcess
  \/ UploadAfterStore
  \/ UploadAfterGenerate
  \/ UploadExc
  \/ BgSelectAgent
  \/ BgAfterValidate
  \/ BgAfterProcess
  \/ BgAfterStore
  \/ BgRetrieve
  \/ BgAfterGenerate
  \/ GenAfterGenerate
  \/ ValidateTool
  \/ ExtractAudio
  \/ Transcribe
  \/ StoreTranscript
  \/ GetTranscription
  \/ Generate
  \/ AttemptFailed
  \/ BuildDocument
  \/ SaveDocumentation
  \/ GeneratePdf
  \/ AgentAfterGenerator
  \/ StoreRecord
  \/ StoreIndex
  \/ SowGetTranscription
  \/ SowGenerate
  \/ SowSaveFile
  \/ SowGeneratePdf
  \/ SowAgentAfterGenerator

SpecModes == InitModes /\ [][NextModes]_vars

\* ---------------------------------------------------------- JSONDatabase
\* set and delete of one namespace, called by coroutines that interleave at
\* their awaits: the lock, _read_db, _write_db.
MaxOps == 3
MaxDbFaults == 1

Ops ==
  [kind : {"set"}, key : Keys, value : Values]
  \cup [kind : {"delete"}, key : Keys, value : {Absent}]

\* json.loads(content) if content else {}
ReadDict(f) == IF f.state = "json" THEN f.data ELSE EmptyDict
Readable(f) == f.state \in {"json", "empty"}

\* db.get(key) on what _read_db returns
Lookup(f, k) == IF Readable(f) THEN ReadDict(f)[k] ELSE "unreadable"

\* json.dumps(data, default=self._json_serializer)
Serializable(d) == \A k \in Keys : d[k] # "object"

DbCall(c) ==
  /\ cpc[c] = "idle"
  /\ nops < MaxOps
  /\ nops' = nops + 1
  /\ \E op \in Ops : cop' = [cop EXCEPT ![c] = op]
  /\ cpc' = [cpc EXCEPT ![c] = "acquire"]
  /\ cres' = [cres EXCEPT ![c] = "none"]
  /\ overlap' = (overlap \/ \E d \in Coroutines \ {c} : cpc[d] # "idle")
  /\ UNCHANGED <<dbfile, lock, clocal, expected, dbfaults, anyFailed>>
  /\ UNCHANGED <<ledger, pipeline, auxButJsondb>>

\* "async with self.lock" that does not wait for the lock
AcquireLock_NoWait(c) ==
  /\ cpc[c] = "acquire"
  /\ cpc' = [cpc EXCEPT ![c] = "read"]
  /\ UNCHANGED <<dbfile, lock, cop, clocal, cres, expected, nops, dbfaults,
                 overlap, anyFailed>>
  /\ UNCHANGED <<ledger, pipeline, auxButJsondb>>

\* async with self.lock
AcquireLock(c) ==
  /\ cpc[c] = "acquire"
  /\ lock = "free"
  /\ lock' = c
  /\ cpc' = [cpc EXCEPT ![c] = "read"]
  /\ UNCHANGED <<dbfile, cop, clocal, cres, expected, nops, dbfaults,
                 overlap, anyFailed>>
  /\ UNCHANGED <<ledger, pipeline, auxButJsondb>>

Released(c) == IF lock = c THEN "free" ELSE lock

\* the exception leaves the "async with": the lock is released
CallRaises(c) ==
  /\ lock' = Released(c)
  /\ cpc' = [cpc EXCEPT ![c] = "idle"]
  /\ cres' = [cres EXCEPT ![c] = "raised"]
  /\ anyFailed' = TRUE

\* db = await self._read_db(), then db[key] = value or del db[key]
ReadDb(c) ==
  /\ cpc[c] = "read"
  /\ IF ~Readable(dbfile)
       THEN /\ CallRaises(c)
            /\ UNCHANGED clocal
       ELSE LET db == ReadDict(dbfile)
                op == cop[c]
            IN IF op.kind = "set"
                 THEN /\ clocal' = [clocal EXCEPT ![c] = [db EXCEPT ![op.key] = op.value]]
                      /\ cpc' = [cpc EXCEPT ![c] = "write"]
                      /\ UNCHANGED <<lock, cres, anyFailed>>
                 ELSE IF db[op.key] # Absent
                        THEN /\ clocal' = [clocal EXCEPT ![c] = [db EXCEPT ![op.key] = Absent]]
                             /\ cpc' = [cpc EXCEPT ![c] = "write"]
                             /\ UNCHANGED <<lock, cres, anyFailed>>
                        ELSE /\ cpc' = [cpc EXCEPT ![c] = "release"]
                             /\ UNCHANGED <<clocal, lock, cres, anyFailed>>
  /\ UNCHANGED <<dbfile, cop, expected, nops, dbfaults, overlap>>
  /\ UNCHANGED <<ledger, pipeline, auxButJsondb>>

\* _write_db: open(db_path, 'w') empties the file, json.dumps builds the
\* text, f.write writes it
WriteDb(c) ==
  /\ cpc[c] = "write"
  /\ IF ~Serializable(clocal[c])
       THEN /\ dbfile' = [state |-> "empty", data |-> EmptyDict]
            /\ CallRaises(c)
            /\ UNCHANGED <<expected, dbfaults>>
       ELSE \/ /\ dbfile' = JsonFile(clocal[c])
               /\ expected' = [expected EXCEPT ![cop[c].key] = cop[c].value]
               /\ cpc' = [cpc EXCEPT ![c] = "release"]
               /\ UNCHANGED <<lock, cres, anyFailed, dbfaults>>
            \/ /\ dbfaults < MaxDbFaults
               /\ dbfaults' = dbfaults + 1
               /\ \E st \in {"empty", "torn"} :
                    dbfile' = [state |-> st, data |-> EmptyDict]
               /\ CallRaises(c)
               /\ UNCHANGED expected
  /\ UNCHANGED <<cop, clocal, nops, overlap>>
  /\ UNCHANGED <<ledger, pipeline, auxButJsondb>>

\* the end of the "async with"
ReleaseLock(c) ==
  /\ cpc[c] = "release"
  /\ lock' = Released(c)
  /\ cpc' = [cpc EXCEPT ![c] = "idle"]
  /\ cres' = [cres EXCEPT ![c] = "ok"]
  /\ UNCHANGED <<dbfile, cop, clocal, expected, nops, dbfaults, overlap,
                 anyFailed>>
  /\ UNCHANGED <<ledger, pipeline, auxButJsondb>>

NextJsondb ==
  \/ \E c \in Coroutines : DbCall(c)
  \/ \E c \in Coroutines : AcquireLock(c)
  \/ \E c \in Coroutines : ReadDb(c)
  \/ \E c \in Coroutines : WriteDb(c)
  \/ \E c \in Coroutines : ReleaseLock(c)

SpecJsondb == InitJsondb /\ [][NextJsondb]_vars

\* ------------------------------------------- update_processing_status
\* models/database.py defines update_processing_status twice; the module
\* binds the name to the second definition, and every importer calls that
\* one.  A dict is its set of keys and the values of the keys it has.
MaxWrites == 3

NoDict ==
  [keys |-> {}, status |-> "", progress |-> 0, current_stage |-> "",
   error |-> << >>, start_time |-> 0, update_time |-> 0, updated_at |-> 0]

NoArgs == [status |-> "", progress |-> 0, current_stage |-> "", error |-> << >>]

StatusArgs ==
  [status : {"uploaded", "processing", "completed", "failed"},
   progress : {0 - 5, 0, 60, 100, 150},
   current_stage : {"validation", "documentation"},
   error : { << >>, <<"io error">> }]

\* the first definition: the stored dict is updated, start_time is set when
\* it is missing
UpdateProcessingStatusFirst(current_data, a, now) ==
  LET updated == [current_data EXCEPT
                    !.keys = @ \cup {"file_id", "status", "progress",
                                     "current_stage", "update_time"},
                    !.status = a.status, !.progress = a.progress,
                    !.current_stage = a.current_stage, !.update_time = now]
      witherr == IF a.error # << >>
                   THEN [updated EXCEPT !.keys = @ \cup {"error"},
                                        !.error = a.error]
                   ELSE updated
  IN IF "start_time" \notin witherr.keys
       THEN [witherr EXCEPT !.keys = @ \cup {"start_time"},
                            !.start_time = now]
       ELSE witherr

\* the second definition: a new dict
UpdateProcessingStatusSecond(current_data, a, now) ==
  LET status_data == [NoDict EXCEPT
                        !.keys = {"file_id", "status", "progress",
                                  "current_stage", "updated_at"},
                        !.status = a.status, !.progress = a.progress,
                        !.current_stage = a.current_stage, !.updated_at = now]
  IN IF a.error # << >>
       THEN [status_data EXCEPT !.keys = @ \cup {"error"}, !.error = a.error]
       ELSE status_data

\* what the name is bound to after the module has been executed
UpdateProcessingStatus(current_data, a, now) ==
  UpdateProcessingStatusSecond(current_data, a, now)

InitStatusdb ==
  /\ PipelineInit /\ FaultMsgInit
  /\ RequestsOff /\ ApiOff /\ ValOff /\ ModesOff /\ JsondbOff
  /\ sdb = [rec |-> NoDict, now |-> 0, first |-> 0, last |-> 0,
            arg |-> NoArgs]

\* await update_processing_status(file_id, ...) at time now + 1
WriteStatus ==
  /\ sdb.now < MaxWrites
  /\ \E a \in StatusArgs :
       sdb' = [rec |-> UpdateProcessingStatus(sdb.rec, a, sdb.now + 1),
               now |-> sdb.now + 1,
               first |-> IF sdb.first = 0 THEN sdb.now + 1 ELSE sdb.first,
               last |-> sdb.now + 1,
               arg |-> a]
  /\ UNCHANGED <<ledger, pipeline, auxButStatusdb>>

NextStatusdb == WriteStatus

SpecStatusdb == InitStatusdb /\ [][NextStatusdb]_vars

\* SOWValidator._get_required_sections
SOWRequiredSections(level) ==
  LET base_sections ==
        << "Project Overview", "Deliverables", "Project Schedule",
           "Resource Requirements", "Project Management",
           "Terms and Conditions", "Next Steps" >>
  IN CASE level = "Simple" -> base_sections
       [] level = "Intermediate" ->
            base_sections \o << "Executive Summary",
                                "Project Scope and Objectives",
                                "Implementation Strategy" >>
       [] OTHER ->
            base_sections \o << "Strategic Project Framework",
                                "Comprehensive Project Scope",
                                "Advanced Deliverables Framework",
                                "Strategic Timeline Management",
                                "Enterprise Resource Planning",
                                "Advanced Project Management",
                                "Strategic Terms and Conditions",
                                "Implementation Excellence" >>

\* =================================================================== claims
Idx == 1..Len(trace)
Calls(who) == {i \in Idx : trace[i].e = "call" /\ trace[i].a = who}
Called(who) == \E i \in Idx : trace[i].e = "call" /\ trace[i].a = who
Writes == {i \in Idx : trace[i].e = "write"}
FaultInRun == \E i \in Idx : trace[i].e = "fault"
Pipeline == run.mode \in {"sync", "bg"}
Ended == pc = "done"
Contains(msg, tok) == \E i \in 1..Len(msg) : msg[i] = tok
MinTranscript(t) == IF IsSowLike(t) THEN MinTranscriptSOW ELSE MinTranscriptBRD

\* C1: in a synchronous or background run, the extractor and the transcriber
\* are invoked only after validate_file returned valid, the transcript store
\* only after process_file returned success, and the generator only after
\* store_transcription returned success.
C1_NoStageAfterFailedStage ==
  Pipeline =>
    /\ (Called("extractor") \/ Called("transcriber")) => res.validation = "ok"
    /\ Called("storage") => res.transcription = "ok"
    /\ Called("generator") => res.storage = "ok"

C1_Witness ==
  /\ Ended /\ Pipeline
  /\ res.validation = "ok" /\ res.transcription = "fail"
  /\ Called("transcriber") /\ ~Called("storage") /\ ~Called("generator")

\* C2: in every successful synchronous or background run the progress values
\* written to the status record never decrease, up to the first write of 100.
First100 ==
  IF \E i \in Writes : trace[i].p = 100
    THEN CHOOSE i \in Writes :
           /\ trace[i].p = 100
           /\ \A j \in Writes : trace[j].p = 100 => i <= j
    ELSE Len(trace)

C2_ProgressNeverDecreases ==
  (Ended /\ Pipeline /\ result.kind = "success") =>
    \A i, j \in Writes :
      (i < j /\ j <= First100) => trace[i].p <= trace[j].p

\* C3: when a run fails during a stage, the status record it leaves has
\* status = failed, a non-empty error and the progress with which that stage
\* is entered.
FailedStage ==
  CASE res.validation = "fail" -> "validation"
    [] res.transcription = "fail" -> "transcription"
    [] res.storage = "fail" -> "storage"
    [] res.generation = "fail" -> "generation"
    [] OTHER -> "none"

EntryProgress(stage) ==
  CASE stage = "validation" -> {10, 20}
    [] stage = "transcription" -> {25}
    [] stage = "storage" -> {50, 60}
    [] stage = "generation" -> {75}
    [] OTHER -> {}

C3_FailureKeepsEntryProgress ==
  (Ended /\ Pipeline /\ ~FaultInRun
   /\ result.kind = "failure" /\ FailedStage # "none") =>
    /\ status[run.fid].status = "failed"
    /\ status[run.fid].err # << >>
    /\ status[run.fid].progress \in EntryProgress(FailedStage)

\* C4 as claimed: a run whose validator accepts, whose transcriber returns a
\* non-empty transcript, whose storage succeeds and whose generator never
\* returns anything but acceptable content ends completed at 100 with the
\* document retrievable by file_id.
GeneratorNeverBad == outs \subseteq {"accepted"}

CompletedWithDocument ==
  /\ status[run.fid].status = "completed"
  /\ status[run.fid].progress = 100
  /\ GetDocumentation(run.fid) # NoDocObj
  /\ GetDocumentation(run.fid).id = doc.id
  /\ GetDocumentation(run.fid).fid = run.fid

WroteStatus == Writes # {}

C5_ExceptionsBecomeFailedStatus ==
  (Ended /\ Pipeline /\ WroteStatus) =>
    /\ status[run.fid].status # "processing"
    /\ result.kind \in {"http500", "unhandled"} =>
         status[run.fid].status = "failed"

\* C6: a generation request whose generator raises on every call calls it
\* exactly MaxRetries times and fails, and the message of the last attempt is
\* in the returned message and in the error of the status record.
GeneratorAlwaysRaised == outs = {"raise"}

C6_RetriesExhausted ==
  /\ Cardinality(Calls("generator")) <= MaxRetries
  /\ (res.generation # "none" /\ GeneratorAlwaysRaised /\ ~FaultInRun) =>
       /\ Cardinality(Calls("generator")) = MaxRetries
       /\ res.generation = "fail"
       /\ Contains(emsg, AttemptTag[MaxRetries])
       /\ Contains(status[run.fid].err, AttemptTag[MaxRetries])
       /\ Ended => Contains(result.msg, AttemptTag[MaxRetries])

C6_Witness ==
  /\ Ended /\ GeneratorAlwaysRaised /\ ~FaultInRun
  /\ res.generation = "fail"
  /\ IsSowLike(run.docType)
  /\ Cardinality(Calls("generator")) = MaxRetries

\* C7: when the transcriber returns an empty transcript, process_file does
\* not return success and neither the transcript store nor the generator is
\* invoked in that run.
C7_EmptyTranscriptIsFailure ==
  (Pipeline /\ Called("transcriber") /\ transcript.raw = 0) =>
    /\ res.transcription # "ok"
    /\ ~Called("storage")
    /\ ~Called("generator")

\* C8: no stored DocumentationRecord has empty content, and a run whose
\* generator returned only empty content does not end completed.
GeneratorOnlyEmpty == outs = {"empty"}

C8_EmptyContentNeverSucceeds ==
  /\ \A d \in DOMAIN docs : docs[d].content.raw > 0
  /\ \A f \in Files : docFile[f] # NoDocObj => docFile[f].content.raw > 0
  /\ GeneratorOnlyEmpty => /\ doc = NoDocObj
                           /\ res.generation # "ok"
  /\ (Ended /\ GeneratorOnlyEmpty) =>
       /\ status[run.fid].status # "completed"
       /\ result.kind # "success"

C8_Witness ==
  /\ Ended /\ GeneratorOnlyEmpty
  /\ Cardinality(Calls("generator")) = MaxRetries
  /\ status[run.fid].status = "failed"

\* C9: a generation request that ends in failure leaves no record of its own
\* in the ledger, and the fetch by file_id returns what it returned before.
C9_FailedGenerationLeavesNothing ==
  (Ended /\ res.generation = "fail") =>
    /\ doc # NoDocObj => doc.id \notin DOMAIN docs
    /\ docIndex[run.fid] = idx0

\* C10: after a successful generation request, the fetch by file_id returns
\* the record this request created, which is the newest record of the ledger;
\* the record an earlier request stored for the file is no longer returned.
C10_LatestDocumentIsCurrent ==
  (Ended /\ result.kind = "success") =>
    /\ doc # NoDocObj
    /\ GetDocumentation(run.fid).id = doc.id
    /\ GetDocumentation(run.fid).fid = run.fid
    /\ doc.id = nextDoc
    /\ \A d \in DOMAIN docs : d <= doc.id
    /\ idx0 # NoDoc => GetDocumentation(run.fid).id # idx0

C10_Witness ==
  /\ Ended /\ result.kind = "success"
  /\ idx0 # NoDoc
  /\ nruns >= 2
  /\ GetDocumentation(run.fid).id = doc.id

\* C11: at any time at most one generation request for a file_id is inside
\* generate_documentation (between its call and its return).
InFlight == {r \in Requests : gpc[r] # "idle"}

C11_AtMostOneInFlight == Cardinality(InFlight) <= 1

\* C12: of two export requests for the same format with the artifact of the
\* first still on disk, both return the same download_url and the second
\* does not invoke the renderer; when the artifact was deleted in between,
\* the second invokes the renderer and, the renderer succeeding, returns a
\* download_url.
Events == 1..Len(dlog)
IsReq(i, x) == dlog[i].k = "req" /\ dlog[i].fmt = x
DeletedBetween(i, j, x) ==
  \E m \in Events : i < m /\ m < j /\ dlog[m].k = "del" /\ dlog[m].fmt = x
NextRequestAfter(i, j, x) ==
  /\ i < j /\ IsReq(i, x) /\ IsReq(j, x)
  /\ \A m \in Events : (i < m /\ m < j) => ~IsReq(m, x)

C12_ExportIsCached ==
  \A x \in Formats : \A i, j \in Events :
    (NextRequestAfter(i, j, x) /\ dlog[i].made) =>
      IF DeletedBetween(i, j, x)
        THEN dlog[j].rendered /\ (dlog[j].made => dlog[j].ok)
        ELSE /\ dlog[i].ok /\ dlog[j].ok
             /\ dlog[i].url = dlog[j].url
             /\ ~dlog[j].rendered

\* C13: a status or document query for a file_id without such a record
\* answers 404 and not 500.
C13_MissingIsNotFound ==
  (qres.kind # "none" /\ ~qres.found) => qres.code = 404


\* C14: a request that has ended has invoked the renderer at most MaxRetries
\* times, and a request whose every rendering attempt failed, with no failing
\* write, ends in success with status completed at 100 and with the record
\* stored for the file carrying no pdf_path.
PdfNeverRendered == Called("renderer") /\ doc # NoDocObj /\ ~doc.pdf

C14_PdfFailureIsNotFatal ==
  /\ Ended => Cardinality(Calls("renderer")) <= MaxRetries
  /\ (Ended /\ PdfNeverRendered /\ ~FaultInRun) =>
       /\ Cardinality(Calls("renderer")) = MaxRetries
       /\ result.kind = "success"
       /\ status[run.fid].status = "completed"
       /\ status[run.fid].progress = 100
       /\ doc.id \in DOMAIN docs
       /\ ~docs[doc.id].pdf
       /\ GetDocumentation(run.fid).id = doc.id
       /\ ~GetDocumentation(run.fid).pdf

C14_Witness ==
  /\ Ended /\ PdfNeverRendered /\ ~FaultInRun
  /\ run.docType = "BRD"
  /\ Cardinality(Calls("renderer")) = MaxRetries
  /\ result.kind = "success"
  /\ ~GetDocumentation(run.fid).pdf


\* C15: a request, of any document type, whose generated non-empty content
\* failed validate_content every time it was validated, with no failing
\* write, ends in success with status completed.
ValidationFailed ==
  IF IsSowLike(run.docType)
    THEN outs = {"rejected"}
    ELSE "accepted" \in outs /\ content.raw > 0 /\ ~content.complete

C15_InvalidContentStillCompletes ==
  (Ended /\ ~FaultInRun /\ res.generation # "none" /\ ValidationFailed) =>
    /\ result.kind = "success"
    /\ status[run.fid].status = "completed"


\* C16 as claimed: validate_content returns (False, 0, issues) for a content
\* of fewer than 100 characters; for any other content the quality_score is
\* (section_score + word_score) / 2, with section_score = 100 x found /
\* required for the required headings found without regard to case and
\* word_score = 100 inside the range of the level, else
\* max(0, 100 - |words - min| / min x 50); is_valid holds exactly when the
\* quality_score is at least 70; Simple content with every required heading
\* and 1500..3000 words gives (True, 100, []).
RefFound ==
  Cardinality({s \in Range(GetRequiredSections(vin.level)) :
                 \E p \in vin.content.heads : p.low = s.low})
RefRequired == Len(GetRequiredSections(vin.level))
RefMin == ExpectedRanges(vin.level)[1]
RefMax == ExpectedRanges(vin.level)[2]
RefInRange == RefMin <= vin.content.words /\ vin.content.words <= RefMax
RefDistance ==
  IF vin.content.words >= RefMin THEN vin.content.words - RefMin
                                 ELSE RefMin - vin.content.words
\* word_score x min
RefWordTimesMin ==
  IF RefInRange THEN 100 * RefMin
  ELSE IF 100 * RefMin >= 50 * RefDistance
         THEN 100 * RefMin - 50 * RefDistance ELSE 0
\* quality_score x 2 x required x min
RefScoreTimes == 100 * RefFound * RefMin + RefRequired * RefWordTimesMin

EqualsReference(short) ==
  IF short
    THEN /\ ~vout.is_valid
         /\ vout.quality_score = <<0, 1>>
         /\ vout.issues # << >>
    ELSE /\ vout.quality_score = Frac(RefScoreTimes, 2 * RefRequired * RefMin)
         /\ vout.is_valid <=> (RefScoreTimes >= 70 * 2 * RefRequired * RefMin)
         /\ (vout.issues = << >>) <=> (RefFound = RefRequired)
         /\ Len(vout.issues) = RefRequired - RefFound
         /\ (vin.level = "Simple" /\ RefFound = RefRequired /\ RefInRange) =>
              /\ vout.is_valid
              /\ vout.quality_score = <<100, 1>>
              /\ vout.issues = << >>

C16_ValidateEqualsReference ==
  vout.returned => EqualsReference(vin.content.raw < 100)

\* C16 amended: the same, the length being the length of content.strip().
C16_ValidateEqualsReferenceOnStrip ==
  vout.returned => EqualsReference(vin.content.strip < 100)

C16_Witness ==
  /\ vout.returned
  /\ vin.content.raw >= 100 /\ vin.content.strip < 100
  /\ RefFound = RefRequired
  /\ RefScoreTimes >= 70 * 2 * RefRequired * RefMin
  /\ ~vout.is_valid
  /\ vout.quality_score = <<0, 1>>


\* C17: a synchronous run and a background run of the same document type in
\* which the same components were invoked and that both succeeded invoke
\* them in the same order and write the same sequence of status updates.
IsCall(ev) == ev.e = "call"
IsWrite(ev) == ev.e = "write"
CallSeq(t) == SelectSeq(t, IsCall)
WriteSeq(t) == SelectSeq(t, IsWrite)
TimesCalled(t, who) ==
  Cardinality({i \in 1..Len(t) : t[i].e = "call" /\ t[i].a = who})
Components ==
  {"validator", "extractor", "transcriber", "storage", "generator", "renderer"}
SameRunInBothModes ==
  /\ Ended
  /\ prev.mode = "sync" /\ run.mode = "bg"
  /\ prev.docType = run.docType
  /\ prev.kind = "success" /\ result.kind = "success"
  /\ \A who \in Components : TimesCalled(prev.trace, who) = TimesCalled(trace, who)

C17_ModesWriteTheSame ==
  SameRunInBothModes =>
    /\ CallSeq(prev.trace) = CallSeq(trace)
    /\ WriteSeq(prev.trace) = WriteSeq(trace)


\* C18: at most one coroutine is between the acquisition and the release of
\* the lock of a namespace, and when every call has finished and none has
\* failed, each key holds the value last written to it (a deleted key holds
\* none).
InsideLock == {c \in Coroutines : cpc[c] \in {"read", "write", "release"}}
AllFinished == \A c \in Coroutines : cpc[c] = "idle"

C18_NoLostUpdate ==
  /\ Cardinality(InsideLock) <= 1
  /\ (AllFinished /\ ~anyFailed) =>
       \A k \in Keys : Lookup(dbfile, k) = expected[k]

C18_Witness ==
  /\ AllFinished /\ ~anyFailed /\ overlap
  /\ cop["c1"].kind = "set" /\ cop["c2"].kind = "set"
  /\ cop["c1"].key # cop["c2"].key
  /\ cres["c1"] = "ok" /\ cres["c2"] = "ok"
  /\ \A k \in Keys : Lookup(dbfile, k) # Absent

\* C19: a call of set or delete that fails while it writes leaves every
\* other key of the namespace with the value it had before the call.
WriteFails(c) == cpc[c] = "write" /\ cres'[c] = "raised"

C19_FailedWriteKeepsOtherKeys ==
  [][\A c \in Coroutines :
       WriteFails(c) =>
         \A k \in Keys \ {cop[c].key} : Lookup(dbfile', k) = Lookup(dbfile, k)]_vars


\* C20: every stored status record has an error exactly when its status is
\* failed, whatever the message of the exception that made the run fail.
C20_ErrorIffFailed ==
  \A f \in Files :
    status[f] # NoRec =>
      ((status[f].status = "failed") <=> (status[f].err # << >>))


\* C21: the stored status record has the start_time of the first write for
\* the file_id and the status, progress, current_stage and update_time of
\* the last write.
C21_StartTimeIsKept ==
  sdb.rec # NoDict =>
    /\ {"start_time", "update_time"} \subseteq sdb.rec.keys
    /\ sdb.rec.start_time = sdb.first
    /\ sdb.rec.update_time = sdb.last
    /\ sdb.rec.status = sdb.arg.status
    /\ sdb.rec.progress = sdb.arg.progress
    /\ sdb.rec.current_stage = sdb.arg.current_stage

\* C22: no stored status record has a progress outside 0..100 or a status
\* outside pending, uploaded, processing, completed, failed, whatever the
\* arguments update_processing_status was called with.
C22_ProgressInRange ==
  sdb.rec # NoDict =>
    /\ sdb.rec.progress \in 0..100
    /\ sdb.rec.status \in {"pending", "uploaded", "processing", "completed",
                           "failed"}


\* C23: a write with status = completed has progress 100 and comes after the
\* generator was invoked, and no later write of the run stores another
\* status.
C23_CompletedOnlyAtEnd ==
  \A i \in Writes :
    trace[i].a = "completed" =>
      /\ trace[i].p = 100
      /\ \E k \in Calls("generator") : k < i
      /\ \A j \in Writes : j > i => trace[j].a = "completed"


\* C24: once a write of a run stored status = failed, no later write of that
\* run stores another status and neither the transcriber, the transcript
\* store, the generator nor the renderer is invoked any more.  The trace
\* only grows within a run, so it is enough to look at its last event.
Capabilities == {"transcriber", "storage", "generator", "renderer"}

FailedBefore(n) ==
  \E i \in 1..(n - 1) : trace[i].e = "write" /\ trace[i].a = "failed"

C24_FailedIsAbsorbing ==
  LET n == Len(trace)
  IN (n > 0 /\ \/ (trace[n].e = "write" /\ trace[n].a # "failed")
               \/ (trace[n].e = "call" /\ trace[n].a \in Capabilities))
       => ~FailedBefore(n)

\* a run stored failed and a later write of the run stored failed again
C24_Witness ==
  LET n == Len(trace)
  IN n > 0 /\ trace[n].e = "write" /\ trace[n].a = "failed" /\ FailedBefore(n)


\* C25: the validator, the transcriber, the transcript store and the
\* generator are each invoked only when the latest status write of the run
\* has status = processing and names the stage that is about to start, and,
\* in an upload run, only after the capability of the stage before it.
Staged == {"validator", "transcriber", "storage", "generator"}

StageNames(who) ==
  CASE who = "validator" -> {"validation"}
    [] who = "transcriber" -> {"transcription"}
    [] who = "storage" -> {"storage"}
    [] who = "generator" -> {"documentation", Label(run.docType)}

StageBefore(who) ==
  CASE who = "validator" -> "validator"
    [] who = "transcriber" -> "validator"
    [] who = "storage" -> "transcriber"
    [] who = "generator" -> "storage"

LastWrite(n) ==
  CHOOSE i \in 0..(n - 1) :
    /\ i > 0 => trace[i].e = "write"
    /\ \A j \in (i + 1)..(n - 1) : trace[j].e # "write"

C25_StatusLeadsWork ==
  LET n == Len(trace)
  IN (n > 0 /\ trace[n].e = "call" /\ trace[n].a \in Staged)
       => /\ LastWrite(n) > 0
          /\ trace[LastWrite(n)].a = "processing"
          /\ trace[LastWrite(n)].s \in StageNames(trace[n].a)
          /\ (Pipeline /\ trace[n].a # "validator")
               => \E k \in 1..(n - 1) :
                    trace[k].e = "call" /\ trace[k].a = StageBefore(trace[n].a)

\* the transcript store is about to work: processing/storage was written
C25_Witness ==
  LET n == Len(trace)
  IN n > 0 /\ trace[n].e = "call" /\ trace[n].a = "storage"
       /\ trace[n - 1].e = "write" /\ trace[n - 1].s = "storage"


\* C26: in a BRD generation, the generator is invoked in attempt k (k = 1..3)
\* right after a write of processing with progress 80 + 5 * (k - 1); the
\* progress written by the retry loop is 80, 85 or 90 and increases from one
\* write to the next; progress 100 is written only after an attempt was
\* accepted; and after an accepted attempt the loop starts no other attempt.
RetryWrite(i) ==
  /\ trace[i].e = "write" /\ trace[i].a = "processing"
  /\ trace[i].s = "documentation" /\ trace[i].p > 75

C26_RetryProgress ==
  LET n == Len(trace)
  IN run.docType = "BRD" =>
       /\ pc \in {"g_call", "g_afail", "g_build"} => attempt \in 0..(MaxRetries - 1)
       /\ (pc \in {"g_afail", "g_build"} /\ n > 1 /\ trace[n].e = "call")
            => /\ trace[n].a = "generator"
               /\ trace[n - 1] = [e |-> "write", a |-> "processing",
                                  p |-> 80 + 5 * attempt, s |-> "documentation"]
       /\ (n > 0 /\ RetryWrite(n))
            => /\ trace[n].p \in {80, 85, 90}
               /\ \A i \in 1..(n - 1) : RetryWrite(i) => trace[i].p < trace[n].p
       /\ (n > 0 /\ trace[n].e = "write" /\ trace[n].p = 100)
            => "accepted" \in outs
       /\ "accepted" \in outs => pc \notin {"g_aw", "g_call", "g_afail"}

\* the third attempt was accepted after two that were not: 80, 85 and 90
\* were written and the record went on to 100
C26_Witness ==
  /\ run.docType = "BRD" /\ attempt = MaxRetries - 1
  /\ Cardinality(Calls("generator")) = MaxRetries
  /\ Len(trace) > 0 /\ trace[Len(trace)].e = "write" /\ trace[Len(trace)].p = 100


\* C27: the required sections of the two validators are nested by level:
\* every heading required at Simple is required at Intermediate, every
\* heading required at Intermediate is required at Advanced, and each higher
\* level requires more headings than the one below it.
Nested(required(_)) ==
  /\ Range(required("Simple")) \subseteq Range(required("Intermediate"))
  /\ Range(required("Intermediate")) \subseteq Range(required("Advanced"))
  /\ Range(required("Simple")) # Range(required("Intermediate"))
  /\ Range(required("Intermediate")) # Range(required("Advanced"))

C27_SectionsNested ==
  vout # NoOutput => Nested(GetRequiredSections) /\ Nested(SOWRequiredSections)


C29_LedgerAndFileAgree ==
  pc \in {"idle", "done"} =>
    \A f \in Files : GetDocumentation(f).id = docFile[f].id


====
